---- MODULE Spec2Model ----
(***************************************************************************)
(* HR platform backend: registration and user administration              *)
(* (src/backend/auth/router.py, src/backend/routers/settings.py), the     *)
(* candidate pipeline (apply, status change, comments, activity ledger)   *)
(* and the per-company pipeline-stage and email-template registries, as   *)
(* implemented in src/backend/main.py and src/backend/routers/settings.py *)
(* over the tables of src/backend/models.py.  Every HTTP handler is one   *)
(* action, or one action per step where the handler reads the store, may  *)
(* be overtaken by another request, and writes at its commit.             *)
(***************************************************************************)
EXTENDS Integers, Sequences, FiniteSets, TLC

\* ------------------------------------------------------------------ bounds
MaxCandidates == 1
MaxLog == 3
MaxStages == 8
MaxTemplates == 5

\* ------------------------------------------------------ program constants
CommentPrefixLen == 20
FallbackScore == 10
MissingScore == 0

\* ------------------------------------------------------------ input domains
Companies == {1, 2}
CandSlots == {1, 2}
Vacancies == {1, 2, 3}
TargetKeys == {"interview", "hired", "offer"}
Usernames == {"", "tg_user"}
Authors == {"HR"}
CommentAuthors == {"HR", "Lead"}
Digits == <<"0", "1", "2", "3", "4", "5", "6", "7", "8", "9">>
Text(n) == [i \in 1..n |-> Digits[(i % 10) + 1]]
CommentTexts == {Text(3), Text(20), Text(21)}
LongText == Text(21)

VARIABLES
    companies,    \* table companies: set of rows
    users,        \* table users: id -> row
    vacancies,    \* table vacancies: id -> row
    stages,       \* table pipeline_stages: set of rows
    templates,    \* table email_templates: set of rows
    candidates,   \* table candidates: sequence of rows, id = index
    activities,   \* table candidate_activities, per candidate, oldest first
    comments,     \* table candidate_comments, per candidate, oldest first
    botToken,     \* whether TELEGRAM_BOT_TOKEN is set in the environment
    req,          \* requests in flight: slot -> the handler's locals
    last          \* the response of the handler that finished last

vars == <<companies, users, vacancies, stages, templates, candidates, activities,
          comments, botToken, req, last>>

tenantVars == <<companies, users, vacancies>>
registryVars == <<stages, templates>>
candidateVars == <<candidates, activities, comments>>

\* ------------------------------------------------------------------ tables
\* models.py: Company(id, name)
CompanyRow(i, n) == [id |-> i, name |-> n]

\* models.py: User(email, role, is_active, company_id)
Account(e, c, r) == [email |-> e, company_id |-> c, role |-> r, is_active |-> TRUE]

\* A user of company c with role r, under an address no other user has.
UserRow(c, r) == Account(r \o ToString(c) \o "@corp", c, r)

\* models.py: Vacancy(company_id, status)
VacancyRow(c) == [company_id |-> c, status |-> "active"]

\* models.py: PipelineStage
StageRow(i, c, d) ==
    [id |-> i, company_id |-> c, key |-> d.key, label |-> d.label,
     color |-> d.color, order |-> d.order, is_active |-> TRUE,
     is_final |-> d.is_final]

default_stages_offer_final == <<
    [key |-> "new",       label |-> "New",       color |-> "#3B82F6", order |-> 0, is_final |-> FALSE],
    [key |-> "screening", label |-> "Screening", color |-> "#8B5CF6", order |-> 1, is_final |-> FALSE],
    [key |-> "interview", label |-> "Interview", color |-> "#F59E0B", order |-> 2, is_final |-> FALSE],
    [key |-> "offer",     label |-> "Offer",     color |-> "#F97316", order |-> 3, is_final |-> TRUE],
    [key |-> "hired",     label |-> "Hired",     color |-> "#10B981", order |-> 4, is_final |-> TRUE],
    [key |-> "rejected",  label |-> "Rejected",  color |-> "#EF4444", order |-> 5, is_final |-> TRUE] >>

\* settings.py: default_stages of create_default_pipeline_stages
default_stages == <<
    [key |-> "new",       label |-> "New",       color |-> "#3B82F6", order |-> 0, is_final |-> FALSE],
    [key |-> "screening", label |-> "Screening", color |-> "#8B5CF6", order |-> 1, is_final |-> FALSE],
    [key |-> "interview", label |-> "Interview", color |-> "#F59E0B", order |-> 2, is_final |-> FALSE],
    [key |-> "offer",     label |-> "Offer",     color |-> "#F97316", order |-> 3, is_final |-> FALSE],
    [key |-> "hired",     label |-> "Hired",     color |-> "#10B981", order |-> 4, is_final |-> TRUE],
    [key |-> "rejected",  label |-> "Rejected",  color |-> "#EF4444", order |-> 5, is_final |-> TRUE] >>

\* settings.py: defaults of create_default_email_templates
default_templates == <<
    [type |-> "invitation", name |-> "Interview invitation"],
    [type |-> "rejection",  name |-> "Rejection"],
    [type |-> "offer",      name |-> "Job offer"] >>

\* models.py: EmailTemplate
TemplateRow(i, c, d) ==
    [id |-> i, company_id |-> c, type |-> d.type, name |-> d.name, is_active |-> TRUE]

SetMax(S) == CHOOSE x \in S : \A y \in S : y <= x

\* The store's primary key of a new row: one more than the largest in use.
NextId(rows) == IF rows = {} THEN 1 ELSE SetMax({r.id : r \in rows}) + 1

\* settings.py:119-140: the rows it adds to the table and commits together
create_default_pipeline_stages(rows, company_id) ==
    {StageRow(NextId(rows) + i - 1, company_id, default_stages[i]) :
        i \in 1..Len(default_stages)}

\* settings.py:143-205
create_default_email_templates(rows, company_id) ==
    {TemplateRow(NextId(rows) + i - 1, company_id, default_templates[i]) :
        i \in 1..Len(default_templates)}

StagesOf(c) == {st \in stages : st.company_id = c}
TemplatesOf(c) == {t \in templates : t.company_id = c}

\* ---------------------------------------------------------------- requests
\* A request in flight: the handler's locals between its read and its commit.
NoData == [label |-> "", color |-> "", is_final |-> FALSE, order |-> 0]

\* settings.py:70-73: a patch with every field None
NoPatch == [label |-> <<>>, color |-> <<>>, is_active |-> <<>>]

Idle == [op |-> "none", pc |-> "idle", company |-> 0, target |-> 0,
         key |-> "", old |-> "", calls |-> 0, failed |-> FALSE, data |-> NoData,
         patch |-> NoPatch, email |-> "", name |-> "", role |-> "",
         ids |-> <<>>, index |-> 0, staged |-> {}]

\* What the handler that finished last answered: the operation, the HTTP
\* outcome, the caller's company, the target id, and for a status change
\* the requested key, the status it read, the Notifier calls it made,
\* whether one failed, and the ledger rows of the target before its commit;
\* for a listing the ids it returned, in order, and how many rows it created;
\* for an apply what the AI provider did; for a registration and a role
\* change the role written, as key.
Response(o, r, c, t) ==
    [op |-> o, resp |-> r, company |-> c, target |-> t, key |-> "", old |-> "",
     calls |-> 0, failed |-> FALSE, rows |-> 0, list |-> <<>>, created |-> 0,
     ai |-> ""]

NoResponse == Response("none", "none", 0, 0)

\* Request slots are interchangeable: a new request takes the lowest free one.
FreeSlot(s) == req[s].pc = "idle" /\ \A t \in DOMAIN req : t < s => req[t].pc # "idle"

\* dependencies.py get_current_user: the token's user exists and is active
get_current_user(u) == u \in DOMAIN users /\ users[u].is_active

\* dependencies.py check_company_access: the response it raises, or "ok"
check_company_access(found, company_id, user_company) ==
    IF ~found THEN "404"
    ELSE IF company_id # user_company THEN "403"
    ELSE "ok"

\* ------------------------------------------------------- AI provider adapter
\* ai.py analyze_resume_with_gpt: what it returns for each upstream outcome.
\* "ok": a JSON object with score and summary; "raise": the API call raises;
\* "bad_json": json.loads raises; "no_keys": a JSON object without the keys;
\* "non_object": valid JSON that is not an object, returned as parsed.
AiOutcomes == {"ok", "raise", "bad_json", "no_keys", "non_object"}

analyze_resume_with_gpt(outcome) ==
    CASE outcome = "ok" ->
           [is_dict |-> TRUE, has_keys |-> TRUE, score |-> 80, summary |-> "fit"]
      [] outcome \in {"raise", "bad_json"} ->
           [is_dict |-> TRUE, has_keys |-> TRUE, score |-> FallbackScore,
            summary |-> "AI analysis error"]
      [] outcome = "no_keys" ->
           [is_dict |-> TRUE, has_keys |-> FALSE, score |-> 0, summary |-> ""]
      [] OTHER ->
           [is_dict |-> FALSE, has_keys |-> FALSE, score |-> 0, summary |-> ""]

\* ------------------------------------------------- candidates and the ledger
\* A formatted description: the f-string's literal text and the values put in.
Activity(a, tpl, args) == [action |-> a, description |-> [text |-> tpl, args |-> args]]

\* Whether a description mentions the value v.
Mentions(activity, v) == \E i \in DOMAIN activity.description.args :
                            activity.description.args[i] = v

\* main.py:383-387
ApplyActivity == Activity("apply", "Candidate applied via Telegram", <<>>)

StatusActivityNewOnly(old, new) == Activity("status_change", "Status changed: {}", <<new>>)

\* main.py:543-547: f"... {old_status} -> {status_update.status}"
StatusActivity(old, new) == Activity("status_change", "Status changed: {} -> {}", <<old, new>>)

TruncateWhole(text) == text

\* main.py:590: comment.text[:20]
Truncate(text) == SubSeq(text, 1, IF Len(text) < CommentPrefixLen THEN Len(text) ELSE CommentPrefixLen)

\* main.py:590: f"...: {comment.text[:20]}..."
CommentActivity(text) == Activity("comment", "Comment: {}...", Truncate(text))

StatusDiffersAlways(old, new) == TRUE

\* main.py:540
StatusDiffers(old, new) == old # new

ShouldNotifyOnOffer(new, telegram_id, token) == new = "offer" /\ telegram_id # "" /\ token

\* main.py:550-552
ShouldNotify(new, telegram_id, token) == new = "interview" /\ telegram_id # "" /\ token

RECURSIVE Rows(_)
Rows(logs) == IF logs = <<>> THEN 0 ELSE Len(Head(logs)) + Rows(Tail(logs))

\* Requests in flight that will append to the ledger.
Pending == Cardinality({s \in DOMAIN req : req[s].op = "status" /\ req[s].old # req[s].key})

\* Room for one more row in candidate_activities.
LedgerRoom == Rows(activities) + Pending < MaxLog

CandidateFound(candidate_id) == candidate_id \in 1..Len(candidates)

\* The stage of company c with key k, when the registry has one that is active.
ActiveStageKey(c, k) == \E st \in StagesOf(c) : st.key = k /\ st.is_active

FinalStageKey(c, k) == \E st \in StagesOf(c) : st.key = k /\ st.is_final

CandidateAccessValidating(u, candidate_id, status) ==
    LET access == check_company_access(CandidateFound(candidate_id),
                      IF CandidateFound(candidate_id)
                      THEN candidates[candidate_id].company_id ELSE 0,
                      users[u].company_id)
    IN IF access = "ok" /\ ~ActiveStageKey(users[u].company_id, status)
       THEN "400" ELSE access

\* main.py:536-537 (and 586-587): everything that can reject the request;
\* the requested status is not looked at
CandidateAccess(u, candidate_id, status) ==
    check_company_access(CandidateFound(candidate_id),
        IF CandidateFound(candidate_id) THEN candidates[candidate_id].company_id ELSE 0,
        users[u].company_id)

\* main.py:357-403
apply_candidate(vacancy_id, username, outcome) ==
    /\ Len(candidates) < MaxCandidates
    /\ LedgerRoom
    /\ LET ai_result == analyze_resume_with_gpt(outcome)
           id == Len(candidates) + 1
       IN IF vacancy_id \notin DOMAIN vacancies
          THEN /\ last' = [Response("apply", "404", 0, 0) EXCEPT !.ai = outcome]
               /\ UNCHANGED candidateVars
          ELSE IF ~ai_result.is_dict
          THEN /\ last' = [Response("apply", "500", 0, 0) EXCEPT !.ai = outcome]
               /\ UNCHANGED candidateVars
          ELSE /\ candidates' = Append(candidates,
                     [company_id |-> vacancies[vacancy_id].company_id,
                      vacancy_id |-> vacancy_id,
                      telegram_id |-> username,
                      ai_score |-> IF ai_result.has_keys THEN ai_result.score ELSE MissingScore,
                      ai_summary |-> IF ai_result.has_keys THEN ai_result.summary ELSE "Analysis error",
                      status |-> "new",
                      source |-> "telegram"])
               /\ activities' = Append(activities, <<ApplyActivity>>)
               /\ comments' = Append(comments, <<>>)
               /\ last' = [Response("apply", "ok", 0, id) EXCEPT !.ai = outcome]
    /\ UNCHANGED <<tenantVars, registryVars, botToken, req>>

\* main.py:529-548: load the candidate, check access, stage the change in the
\* session (nothing is written to the store before the commit)
update_candidate_status(s, u, candidate_id, status) ==
    /\ FreeSlot(s)
    /\ get_current_user(u)
    /\ LET access == CandidateAccess(u, candidate_id, status)
       IN IF access # "ok"
          THEN /\ last' = Response("status", access, users[u].company_id, candidate_id)
               /\ UNCHANGED req
          ELSE LET candidate == candidates[candidate_id]
                   old_status == candidate.status
               IN /\ old_status # status => LedgerRoom
                  /\ req' = [req EXCEPT ![s] =
                        [op |-> "status",
                         pc |-> IF StatusDiffers(old_status, status)
                                   /\ ShouldNotify(status, candidate.telegram_id, botToken)
                                THEN "notify" ELSE "commit",
                         company |-> users[u].company_id,
                         target |-> candidate_id, key |-> status,
                         old |-> old_status, calls |-> 0, failed |-> FALSE,
                         data |-> NoData, patch |-> NoPatch,
                         email |-> "", name |-> "", role |-> "",
                         ids |-> <<>>, index |-> 0, staged |-> {}]]
                  /\ UNCHANGED last
    /\ UNCHANGED <<tenantVars, registryVars, candidateVars, botToken>>

update_candidate_status_notify_raises(s, delivered) ==
    /\ req[s].pc = "notify"
    /\ IF delivered
       THEN /\ req' = [req EXCEPT ![s].pc = "commit", ![s].calls = @ + 1]
            /\ UNCHANGED last
       ELSE /\ req' = [req EXCEPT ![s] = Idle]
            /\ last' = [Response("status", "500", req[s].company, req[s].target)
                           EXCEPT !.key = req[s].key, !.old = req[s].old,
                                  !.calls = 1, !.failed = TRUE,
                                  !.rows = Len(activities[req[s].target])]
    /\ UNCHANGED <<tenantVars, registryVars, candidateVars, botToken>>

\* main.py:553-561: the POST to the Telegram API; any exception is swallowed
update_candidate_status_notify(s, delivered) ==
    /\ req[s].pc = "notify"
    /\ req' = [req EXCEPT ![s].pc = "commit", ![s].calls = @ + 1,
                           ![s].failed = ~delivered]
    /\ UNCHANGED <<tenantVars, registryVars, candidateVars, botToken, last>>

StatusWrittenUnlessFinal(company, old, new) ==
    IF FinalStageKey(company, old) THEN old ELSE new

\* main.py:541: the value assigned to candidate.status
StatusWritten(company, old, new) == new

\* main.py:563-577: db.commit() flushes the staged status and activity
update_candidate_status_commit(s) ==
    /\ req[s].pc = "commit"
    /\ req[s].op = "status"
    /\ LET r == req[s]
       IN /\ IF StatusDiffers(r.old, r.key)
             THEN /\ candidates' = [candidates EXCEPT ![r.target].status =
                                       StatusWritten(r.company, r.old, r.key)]
                  /\ activities' = [activities EXCEPT ![r.target] =
                                        Append(@, StatusActivity(r.old, r.key))]
             ELSE UNCHANGED <<candidates, activities>>
          /\ last' = [op |-> "status", resp |-> "ok", company |-> r.company,
                      target |-> r.target, key |-> r.key, old |-> r.old,
                      calls |-> r.calls, failed |-> r.failed,
                      rows |-> Len(activities[r.target]), list |-> <<>>,
                      created |-> 0, ai |-> ""]
    /\ req' = [req EXCEPT ![s] = Idle]
    /\ UNCHANGED <<tenantVars, registryVars, comments, botToken>>

add_comment_unlogged(u, candidate_id, author_name, text) ==
    /\ get_current_user(u)
    /\ CandidateAccess(u, candidate_id, "") = "ok"
    /\ LedgerRoom
    /\ comments' = [comments EXCEPT ![candidate_id] =
                        Append(@, [author_name |-> author_name, text |-> text])]
    /\ last' = Response("comment", "ok", users[u].company_id, candidate_id)
    /\ UNCHANGED <<tenantVars, registryVars, candidates, activities, botToken, req>>

\* main.py:579-592
add_comment(u, candidate_id, author_name, text) ==
    /\ get_current_user(u)
    /\ LET access == CandidateAccess(u, candidate_id, "")
       IN IF access # "ok"
          THEN /\ last' = Response("comment", access, users[u].company_id, candidate_id)
               /\ UNCHANGED candidateVars
          ELSE /\ LedgerRoom
               /\ comments' = [comments EXCEPT ![candidate_id] =
                                   Append(@, [author_name |-> author_name, text |-> text])]
               /\ activities' = [activities EXCEPT ![candidate_id] =
                                     Append(@, CommentActivity(text))]
               /\ UNCHANGED candidates
               /\ last' = Response("comment", "ok", users[u].company_id, candidate_id)
    /\ UNCHANGED <<tenantVars, registryVars, botToken, req>>

\* ------------------------------------------------------ the stage registry
\* dependencies.py:58-67
get_current_active_admin(u) == get_current_user(u) /\ users[u].role = "admin"

\* Rows create_pipeline_stage requests have staged but not yet committed.
PendingInserts == Cardinality({s \in DOMAIN req : req[s].op = "create_stage"})

\* Room for one more row in pipeline_stages.
StageRoom == Cardinality(stages) + PendingInserts < MaxStages

RECURSIVE OrderedIds(_)
\* settings.py:328-330: order_by(PipelineStage.order); the ids of the rows in
\* ascending order.  Rows of equal order come out in the store's scan order,
\* by id: the same rows always give the same sequence.
OrderedIds(rows) ==
    IF rows = {} THEN <<>>
    ELSE LET first == CHOOSE r \in rows : \A q \in rows :
                         r.order < q.order \/ (r.order = q.order /\ r.id <= q.id)
         IN <<first.id>> \o OrderedIds(rows \ {first})

get_pipeline_stages_always_provision(s, u) ==
    /\ FreeSlot(s)
    /\ get_current_user(u)
    /\ LET company_id == users[u].company_id
       IN IF FALSE
          THEN /\ last' = [Response("list_stages", "ok", company_id, 0)
                              EXCEPT !.rows = Cardinality(StagesOf(company_id)),
                                     !.list = OrderedIds(StagesOf(company_id))]
               /\ UNCHANGED req
          ELSE /\ req' = [req EXCEPT ![s] = [Idle EXCEPT !.op = "list_stages",
                                 !.pc = "provision", !.company = company_id]]
               /\ UNCHANGED last
    /\ UNCHANGED <<tenantVars, registryVars, candidateVars, botToken>>

\* settings.py:322-335, the read: a company with stages gets them back; one
\* with none goes on to create the defaults
get_pipeline_stages(s, u) ==
    /\ FreeSlot(s)
    /\ get_current_user(u)
    /\ LET company_id == users[u].company_id
       IN IF StagesOf(company_id) # {}
          THEN /\ last' = [Response("list_stages", "ok", company_id, 0)
                              EXCEPT !.rows = Cardinality(StagesOf(company_id)),
                                     !.list = OrderedIds(StagesOf(company_id))]
               /\ UNCHANGED req
          ELSE /\ req' = [req EXCEPT ![s] = [Idle EXCEPT !.op = "list_stages",
                                 !.pc = "provision", !.company = company_id]]
               /\ UNCHANGED last
    /\ UNCHANGED <<tenantVars, registryVars, candidateVars, botToken>>

\* settings.py:130-140: the created rows, in the order they were created
CreatedIds(rows) == [i \in 1..Len(default_stages) |-> NextId(rows) + i - 1]

\* settings.py:333 with 119-140: insert the six defaults, commit, and return
\* the created rows
get_pipeline_stages_provision(s) ==
    /\ req[s].op = "list_stages"
    /\ req[s].pc = "provision"
    /\ stages' = stages \cup create_default_pipeline_stages(stages, req[s].company)
    /\ last' = [Response("list_stages", "ok", req[s].company, 0)
                   EXCEPT !.rows = Len(default_stages), !.list = CreatedIds(stages),
                          !.created = Len(default_stages)]
    /\ req' = [req EXCEPT ![s] = Idle]
    /\ UNCHANGED <<tenantVars, templates, candidateVars, botToken>>

\* settings.py:468-481, the read
get_email_templates(s, u) ==
    /\ FreeSlot(s)
    /\ get_current_user(u)
    /\ LET company_id == users[u].company_id
       IN IF TemplatesOf(company_id) # {}
          THEN /\ last' = [Response("list_templates", "ok", company_id, 0)
                              EXCEPT !.rows = Cardinality(TemplatesOf(company_id))]
               /\ UNCHANGED req
          ELSE /\ req' = [req EXCEPT ![s] = [Idle EXCEPT !.op = "list_templates",
                                 !.pc = "provision", !.company = company_id]]
               /\ UNCHANGED last
    /\ UNCHANGED <<tenantVars, registryVars, candidateVars, botToken>>

\* settings.py:479 with 143-205: insert the three defaults and commit
get_email_templates_provision(s) ==
    /\ req[s].op = "list_templates"
    /\ req[s].pc = "provision"
    /\ templates' = templates \cup create_default_email_templates(templates, req[s].company)
    /\ last' = [Response("list_templates", "ok", req[s].company, 0)
                   EXCEPT !.rows = Len(default_templates)]
    /\ req' = [req EXCEPT ![s] = Idle]
    /\ UNCHANGED <<tenantVars, stages, candidateVars, botToken>>

\* settings.py:354-360: order of a new stage
new_order(company_id) ==
    LET open == {st \in StagesOf(company_id) : ~st.is_final}
    IN IF open = {} THEN 0 ELSE SetMax({st.order : st \in open}) + 1

create_pipeline_stage_global_key(s, u, data) ==
    /\ FreeSlot(s)
    /\ get_current_active_admin(u)
    /\ LET company_id == users[u].company_id
       IN IF \E st \in stages : st.key = data.key
          THEN /\ last' = [Response("create_stage", "400:exists", company_id, 0)
                              EXCEPT !.key = data.key]
               /\ UNCHANGED req
          ELSE /\ StageRoom
               /\ req' = [req EXCEPT ![s] = [Idle EXCEPT !.op = "create_stage",
                             !.pc = "insert", !.company = company_id, !.key = data.key,
                             !.data = [label |-> data.label, color |-> data.color,
                                       is_final |-> data.is_final,
                                       order |-> new_order(company_id)]]]
               /\ UNCHANGED last
    /\ UNCHANGED <<tenantVars, registryVars, candidateVars, botToken>>

\* settings.py:338-360: the uniqueness check and the order, both read before
\* the insert
create_pipeline_stage(s, u, data) ==
    /\ FreeSlot(s)
    /\ get_current_active_admin(u)
    /\ LET company_id == users[u].company_id
       IN IF \E st \in StagesOf(company_id) : st.key = data.key
          THEN /\ last' = [Response("create_stage", "400:exists", company_id, 0)
                              EXCEPT !.key = data.key]
               /\ UNCHANGED req
          ELSE /\ StageRoom
               /\ req' = [req EXCEPT ![s] = [Idle EXCEPT !.op = "create_stage",
                             !.pc = "insert", !.company = company_id, !.key = data.key,
                             !.data = [label |-> data.label, color |-> data.color,
                                       is_final |-> data.is_final,
                                       order |-> new_order(company_id)]]]
               /\ UNCHANGED last
    /\ UNCHANGED <<tenantVars, registryVars, candidateVars, botToken>>

\* settings.py:362-375: insert the row and commit
create_pipeline_stage_insert(s) ==
    /\ req[s].op = "create_stage"
    /\ req[s].pc = "insert"
    /\ LET r == req[s]
           id == NextId(stages)
       IN /\ stages' = stages \cup
                {[id |-> id, company_id |-> r.company, key |-> r.key,
                  label |-> r.data.label, color |-> r.data.color,
                  order |-> r.data.order, is_active |-> TRUE,
                  is_final |-> r.data.is_final]}
          /\ last' = [Response("create_stage", "ok", r.company, id) EXCEPT !.key = r.key]
    /\ req' = [req EXCEPT ![s] = Idle]
    /\ UNCHANGED <<tenantVars, templates, candidateVars, botToken>>

\* settings.py:386-389 (and 418-421, 437-440): the stage with this id in the
\* caller's company
StageById(stage_id, company_id) ==
    {st \in stages : st.id = stage_id /\ st.company_id = company_id}

\* settings.py:398-403: a patch field that is None leaves the column alone
Patched(stage, data) ==
    [stage EXCEPT !.label = IF data.label # <<>> THEN data.label[1] ELSE @,
                  !.color = IF data.color # <<>> THEN data.color[1] ELSE @,
                  !.is_active = IF data.is_active # <<>> THEN data.is_active[1] ELSE @]

\* settings.py:398-403 as the session sees it: only an attribute whose new
\* value differs from the loaded one is written at the flush
NetPatch(stage, data) ==
    [label |-> IF data.label # <<>> /\ data.label[1] # stage.label
               THEN data.label ELSE <<>>,
     color |-> IF data.color # <<>> /\ data.color[1] # stage.color
               THEN data.color ELSE <<>>,
     is_active |-> IF data.is_active # <<>> /\ data.is_active[1] # stage.is_active
                   THEN data.is_active ELSE <<>>]

\* settings.py:378-403: the lookup, the two refusals, and the patch staged on
\* the loaded row
update_pipeline_stage(s, u, stage_id, data) ==
    /\ FreeSlot(s)
    /\ get_current_active_admin(u)
    /\ LET company_id == users[u].company_id
           found == StageById(stage_id, company_id)
       IN IF found = {}
          THEN /\ last' = Response("update_stage", "404", company_id, stage_id)
               /\ UNCHANGED req
          ELSE LET stage == CHOOSE st \in found : TRUE
               IN IF stage.is_final /\ data.is_active = <<FALSE>>
                  THEN /\ last' = Response("update_stage", "400:hide_final",
                                           company_id, stage_id)
                       /\ UNCHANGED req
                  ELSE /\ req' = [req EXCEPT ![s] = [Idle EXCEPT !.op = "update_stage",
                                     !.pc = "commit", !.company = company_id,
                                     !.target = stage_id, !.key = stage.key,
                                     !.patch = NetPatch(stage, data)]]
                       /\ UNCHANGED last
    /\ UNCHANGED <<tenantVars, registryVars, candidateVars, botToken>>

\* settings.py:405-407: UPDATE of the loaded row, by primary key, commit and
\* refresh; a row that is gone fails the flush or the refresh
update_pipeline_stage_commit(s) ==
    /\ req[s].op = "update_stage"
    /\ req[s].pc = "commit"
    /\ LET r == req[s]
       IN IF \E st \in stages : st.id = r.target
          THEN /\ stages' = {IF st.id = r.target THEN Patched(st, r.patch) ELSE st :
                                st \in stages}
               /\ last' = [Response("update_stage", "ok", r.company, r.target)
                              EXCEPT !.key = r.key]
          ELSE /\ last' = Response("update_stage", "500", r.company, r.target)
               /\ UNCHANGED stages
    /\ req' = [req EXCEPT ![s] = Idle]
    /\ UNCHANGED <<tenantVars, templates, candidateVars, botToken>>

RECURSIVE ReorderFrom(_, _, _, _)
\* settings.py:417-424: the loop, from 0-based position index on
ReorderFrom(rows, company_id, stage_ids, index) ==
    IF index >= Len(stage_ids) THEN rows
    ELSE ReorderFrom({IF st.id = stage_ids[index + 1] /\ st.company_id = company_id
                      THEN [st EXCEPT !.order = index] ELSE st : st \in rows},
                     company_id, stage_ids, index + 1)

reorder_pipeline_stages_any_company(u, stage_ids) ==
    /\ get_current_active_admin(u)
    /\ \A s \in DOMAIN req : req[s].pc = "idle"
    /\ stages' = ReorderFrom(ReorderFrom(stages, 1, stage_ids, 0), 2, stage_ids, 0)
    /\ last' = [Response("reorder", "ok", users[u].company_id, 0)
                   EXCEPT !.list = stage_ids]
    /\ UNCHANGED <<tenantVars, templates, candidateVars, botToken, req>>

reorder_pipeline_stages_shifting(u, stage_ids) ==
    /\ get_current_active_admin(u)
    /\ \A s \in DOMAIN req : req[s].pc = "idle"
    /\ stages' = {IF st.company_id = users[u].company_id
                      /\ \E i \in DOMAIN stage_ids : stage_ids[i] = st.id
                  THEN [st EXCEPT !.order = (st.order + 1) % 3] ELSE st : st \in stages}
    /\ last' = [Response("reorder", "ok", users[u].company_id, 0)
                   EXCEPT !.list = stage_ids]
    /\ UNCHANGED <<tenantVars, templates, candidateVars, botToken, req>>

\* settings.py:410-427; a synchronous handler, taken here as one step between
\* the steps of the split handlers
reorder_pipeline_stages(u, stage_ids) ==
    /\ get_current_active_admin(u)
    /\ \A s \in DOMAIN req : req[s].pc = "idle"
    /\ stages' = ReorderFrom(stages, users[u].company_id, stage_ids, 0)
    /\ last' = [Response("reorder", "ok", users[u].company_id, 0)
                   EXCEPT !.list = stage_ids]
    /\ UNCHANGED <<tenantVars, templates, candidateVars, botToken, req>>

\* settings.py:410-415, the handler step by step, for requests that overlap:
\* the request is authenticated and the loop starts at position 0
reorder_pipeline_stages_start(s, u, stage_ids) ==
    /\ FreeSlot(s)
    /\ get_current_active_admin(u)
    /\ req' = [req EXCEPT ![s] = [Idle EXCEPT !.op = "reorder",
                   !.pc = IF stage_ids = <<>> THEN "commit" ELSE "loop",
                   !.company = users[u].company_id, !.ids = stage_ids]]
    /\ UNCHANGED <<tenantVars, registryVars, candidateVars, botToken, last>>

\* The session's pending change of a row after `order = index`: the row keeps
\* the value it was first loaded with, and the latest value assigned.
Assign(staged, stage, index) ==
    IF \E p \in staged : p.id = stage.id
    THEN {IF p.id = stage.id THEN [p EXCEPT !.order = index] ELSE p : p \in staged}
    ELSE staged \cup {[id |-> stage.id, loaded |-> stage.order, order |-> index]}

reorder_pipeline_stages_lookup_autocommit(s) ==
    /\ req[s].op = "reorder"
    /\ req[s].pc = "loop"
    /\ LET r == req[s]
           found == StageById(r.ids[r.index + 1], r.company)
       IN /\ stages' = {IF st \in found THEN [st EXCEPT !.order = r.index] ELSE st :
                           st \in stages}
          /\ req' = [req EXCEPT ![s].index = r.index + 1,
                        ![s].pc = IF r.index + 1 = Len(r.ids) THEN "commit" ELSE "loop"]
    /\ UNCHANGED <<tenantVars, templates, candidateVars, botToken, last>>

\* settings.py:417-424: one turn of the loop: the query of the id among the
\* company's stages and the assignment, kept in the session (autoflush is off)
reorder_pipeline_stages_lookup(s) ==
    /\ req[s].op = "reorder"
    /\ req[s].pc = "loop"
    /\ LET r == req[s]
           found == StageById(r.ids[r.index + 1], r.company)
       IN req' = [req EXCEPT ![s].index = r.index + 1,
                     ![s].pc = IF r.index + 1 = Len(r.ids) THEN "commit" ELSE "loop",
                     ![s].staged = IF found = {} THEN r.staged
                                   ELSE Assign(r.staged, CHOOSE st \in found : TRUE, r.index)]
    /\ UNCHANGED <<tenantVars, registryVars, candidateVars, botToken, last>>

\* settings.py:426-427: db.commit() writes, in one transaction, an UPDATE by
\* primary key for every row whose value differs from the one loaded; an
\* UPDATE that matches no row raises and the transaction is rolled back
reorder_pipeline_stages_commit(s) ==
    /\ req[s].op = "reorder"
    /\ req[s].pc = "commit"
    /\ LET r == req[s]
           dirty == {p \in r.staged : p.order # p.loaded}
       IN IF \E p \in dirty : \A st \in stages : st.id # p.id
          THEN /\ last' = [Response("reorder", "500", r.company, 0) EXCEPT !.list = r.ids]
               /\ UNCHANGED stages
          ELSE /\ stages' = {IF \E p \in dirty : p.id = st.id
                             THEN [st EXCEPT !.order = (CHOOSE p \in dirty : p.id = st.id).order]
                             ELSE st : st \in stages}
               /\ last' = [Response("reorder", "ok", r.company, 0) EXCEPT !.list = r.ids]
    /\ req' = [req EXCEPT ![s] = Idle]
    /\ UNCHANGED <<tenantVars, templates, candidateVars, botToken>>

candidates_count_any_company(company_id, key) ==
    Cardinality({c \in 1..Len(candidates) : candidates[c].status = key})

\* settings.py:449-452
candidates_count(company_id, key) ==
    Cardinality({c \in 1..Len(candidates) :
                    candidates[c].company_id = company_id /\ candidates[c].status = key})

\* settings.py:430-458: the lookup and the three refusals
delete_pipeline_stage(s, u, stage_id) ==
    /\ FreeSlot(s)
    /\ get_current_active_admin(u)
    /\ LET company_id == users[u].company_id
           found == StageById(stage_id, company_id)
       IN IF found = {}
          THEN /\ last' = Response("delete_stage", "404", company_id, stage_id)
               /\ UNCHANGED req
          ELSE LET stage == CHOOSE st \in found : TRUE
               IN IF stage.is_final
                  THEN /\ last' = Response("delete_stage", "400:final", company_id, stage_id)
                       /\ UNCHANGED req
                  ELSE IF candidates_count(company_id, stage.key) > 0
                  THEN /\ last' = Response("delete_stage", "400:in_use", company_id, stage_id)
                       /\ UNCHANGED req
                  ELSE /\ req' = [req EXCEPT ![s] = [Idle EXCEPT !.op = "delete_stage",
                                     !.pc = "delete", !.company = company_id,
                                     !.target = stage_id, !.key = stage.key]]
                       /\ UNCHANGED last
    /\ UNCHANGED <<tenantVars, registryVars, candidateVars, botToken>>

\* settings.py:460-462: DELETE of the loaded row, by primary key, and commit
delete_pipeline_stage_commit(s) ==
    /\ req[s].op = "delete_stage"
    /\ req[s].pc = "delete"
    /\ stages' = {st \in stages : st.id # req[s].target}
    /\ last' = [Response("delete_stage", "ok", req[s].company, req[s].target)
                   EXCEPT !.key = req[s].key]
    /\ req' = [req EXCEPT ![s] = Idle]
    /\ UNCHANGED <<tenantVars, templates, candidateVars, botToken>>

\* ---------------------------------------------------------------- accounts
UserByEmail(e) == {u \in DOMAIN users : users[u].email = e}

CompanyByName(n) == {c \in companies : c.name = n}

UsersOf(c) == {u \in DOMAIN users : users[u].company_id = c}

\* auth/router.py:46-62: the email check and the company lookup
register(s, data) ==
    /\ FreeSlot(s)
    /\ IF UserByEmail(data.email) # {}
       THEN /\ last' = Response("register", "400:exists", 0, 0)
            /\ UNCHANGED req
       ELSE LET found == CompanyByName(data.company_name)
            IN /\ req' = [req EXCEPT ![s] = [Idle EXCEPT !.op = "register",
                     !.pc = IF found = {} THEN "company" ELSE "count",
                     !.company = IF found = {} THEN 0 ELSE (CHOOSE c \in found : TRUE).id,
                     !.email = data.email, !.name = data.company_name]]
               /\ UNCHANGED last
    /\ UNCHANGED <<tenantVars, registryVars, candidateVars, botToken>>

\* auth/router.py:63-67: insert the company and commit; the name is unique
\* (models.py:11), so the insert of a name taken meanwhile raises
register_company(s) ==
    /\ req[s].op = "register"
    /\ req[s].pc = "company"
    /\ IF CompanyByName(req[s].name) # {}
       THEN /\ last' = Response("register", "500", 0, 0)
            /\ req' = [req EXCEPT ![s] = Idle]
            /\ UNCHANGED companies
       ELSE /\ companies' = companies \cup {CompanyRow(NextId(companies), req[s].name)}
            /\ req' = [req EXCEPT ![s].pc = "count", ![s].company = NextId(companies)]
            /\ UNCHANGED last
    /\ UNCHANGED <<users, vacancies, registryVars, candidateVars, botToken>>

\* auth/router.py:69-71: the first user of the company becomes its admin
register_count(s) ==
    /\ req[s].op = "register"
    /\ req[s].pc = "count"
    /\ req' = [req EXCEPT ![s].pc = "insert",
                          ![s].role = IF Cardinality(UsersOf(req[s].company)) = 0
                                      THEN "admin" ELSE "recruiter"]
    /\ UNCHANGED <<tenantVars, registryVars, candidateVars, botToken, last>>

\* auth/router.py:73-104: insert the user and commit; the email is unique
\* (models.py:30), so the insert of an address taken meanwhile raises
register_insert(s) ==
    /\ req[s].op = "register"
    /\ req[s].pc = "insert"
    /\ IF UserByEmail(req[s].email) # {}
       THEN /\ last' = Response("register", "500", req[s].company, 0)
            /\ UNCHANGED users
       ELSE /\ users' = Append(users, Account(req[s].email, req[s].company, req[s].role))
            /\ last' = [Response("register", "ok", req[s].company, Len(users) + 1)
                           EXCEPT !.key = req[s].role]
    /\ req' = [req EXCEPT ![s] = Idle]
    /\ UNCHANGED <<companies, vacancies, registryVars, candidateVars, botToken>>

\* settings.py:280-286: the user with that id among the caller's company
UserById(user_id, company_id) ==
    {i \in DOMAIN users : i = user_id /\ users[i].company_id = company_id}

update_user_role_self_allowed(s, u, user_id, role) ==
    /\ FreeSlot(s)
    /\ get_current_active_admin(u)
    /\ IF UserById(user_id, users[u].company_id) = {}
       THEN /\ last' = Response("role", "404", users[u].company_id, user_id)
            /\ UNCHANGED req
       ELSE /\ req' = [req EXCEPT ![s] = [Idle EXCEPT !.op = "role", !.pc = "commit",
                          !.company = users[u].company_id, !.target = user_id,
                          !.role = role]]
            /\ UNCHANGED last
    /\ UNCHANGED <<tenantVars, registryVars, candidateVars, botToken>>

\* settings.py:273-291: the lookup, the two refusals, the assignment staged in
\* the session
update_user_role(s, u, user_id, role) ==
    /\ FreeSlot(s)
    /\ get_current_active_admin(u)
    /\ IF UserById(user_id, users[u].company_id) = {}
       THEN /\ last' = Response("role", "404", users[u].company_id, user_id)
            /\ UNCHANGED req
       ELSE IF user_id = u
       THEN /\ last' = Response("role", "400:self", users[u].company_id, user_id)
            /\ UNCHANGED req
       ELSE /\ req' = [req EXCEPT ![s] = [Idle EXCEPT !.op = "role", !.pc = "commit",
                          !.company = users[u].company_id, !.target = user_id,
                          !.role = role]]
            /\ UNCHANGED last
    /\ UNCHANGED <<tenantVars, registryVars, candidateVars, botToken>>

\* settings.py:292-294: UPDATE users SET role WHERE id, and commit
update_user_role_commit(s) ==
    /\ req[s].op = "role"
    /\ req[s].pc = "commit"
    /\ users' = [users EXCEPT ![req[s].target].role = req[s].role]
    /\ last' = [Response("role", "ok", req[s].company, req[s].target)
                   EXCEPT !.key = req[s].role]
    /\ req' = [req EXCEPT ![s] = Idle]
    /\ UNCHANGED <<companies, vacancies, registryVars, candidateVars, botToken>>

\* settings.py:297-314: the lookup, the two refusals, the assignment staged in
\* the session
deactivate_user(s, u, user_id) ==
    /\ FreeSlot(s)
    /\ get_current_active_admin(u)
    /\ IF UserById(user_id, users[u].company_id) = {}
       THEN /\ last' = Response("deactivate", "404", users[u].company_id, user_id)
            /\ UNCHANGED req
       ELSE IF user_id = u
       THEN /\ last' = Response("deactivate", "400:self", users[u].company_id, user_id)
            /\ UNCHANGED req
       ELSE /\ req' = [req EXCEPT ![s] = [Idle EXCEPT !.op = "deactivate", !.pc = "commit",
                          !.company = users[u].company_id, !.target = user_id]]
            /\ UNCHANGED last
    /\ UNCHANGED <<tenantVars, registryVars, candidateVars, botToken>>

\* settings.py:314-316: UPDATE users SET is_active = false WHERE id, and commit
deactivate_user_commit(s) ==
    /\ req[s].op = "deactivate"
    /\ req[s].pc = "commit"
    /\ users' = [users EXCEPT ![req[s].target].is_active = FALSE]
    /\ last' = Response("deactivate", "ok", req[s].company, req[s].target)
    /\ req' = [req EXCEPT ![s] = Idle]
    /\ UNCHANGED <<companies, vacancies, registryVars, candidateVars, botToken>>

\* -------------------------------------- handlers taken as one step each
\* The sync handlers below are used with one request at a time and are taken
\* whole, from the lookup to the commit.
NoRequest == \A s \in DOMAIN req : req[s].pc = "idle"

\* settings.py:249-270
create_user(u, data) ==
    /\ NoRequest
    /\ get_current_active_admin(u)
    /\ IF UserByEmail(data.email) # {}
       THEN /\ last' = Response("create_user", "400:exists", users[u].company_id, 0)
            /\ UNCHANGED users
       ELSE /\ users' = Append(users, Account(data.email, users[u].company_id, data.role))
            /\ last' = Response("create_user", "ok", users[u].company_id, Len(users) + 1)
    /\ UNCHANGED <<companies, vacancies, registryVars, candidateVars, botToken, req>>

\* main.py:311-326: data.dict(exclude_unset=True) holds the fields sent; of
\* the fields of VacancyUpdate the model keeps status
update_vacancy(u, vacancy_id, data) ==
    /\ NoRequest
    /\ get_current_user(u)
    /\ LET found == vacancy_id \in DOMAIN vacancies
           access == check_company_access(found,
                         IF found THEN vacancies[vacancy_id].company_id ELSE 0,
                         users[u].company_id)
       IN /\ last' = Response("update_vacancy", access, users[u].company_id, vacancy_id)
          /\ IF access = "ok" /\ data.status # <<>>
             THEN vacancies' = [vacancies EXCEPT ![vacancy_id].status = data.status[1]]
             ELSE UNCHANGED vacancies
    /\ UNCHANGED <<companies, users, registryVars, candidateVars, botToken, req>>

\* settings.py:502-521
create_email_template(u, data) ==
    /\ NoRequest
    /\ get_current_active_admin(u)
    /\ Cardinality(templates) < MaxTemplates
    /\ templates' = templates \cup {TemplateRow(NextId(templates), users[u].company_id, data)}
    /\ last' = Response("create_template", "ok", users[u].company_id, NextId(templates))
    /\ UNCHANGED <<tenantVars, stages, candidateVars, botToken, req>>

TemplateByIdAnyCompany(template_id, company_id) ==
    {t \in templates : t.id = template_id}

\* settings.py:531-534 (and 560-563): the template with that id among the
\* caller's company
TemplateById(template_id, company_id) ==
    {t \in templates : t.id = template_id /\ t.company_id = company_id}

\* settings.py:524-551: of the fields of EmailTemplateUpdate the model keeps
\* name and is_active
update_email_template(u, template_id, data) ==
    /\ NoRequest
    /\ get_current_active_admin(u)
    /\ LET found == TemplateById(template_id, users[u].company_id)
       IN IF found = {}
          THEN /\ last' = Response("update_template", "404", users[u].company_id, template_id)
               /\ UNCHANGED templates
          ELSE /\ templates' =
                     {IF t \in found
                      THEN [t EXCEPT !.name = IF data.name # <<>> THEN data.name[1] ELSE @,
                                     !.is_active = IF data.is_active # <<>>
                                                   THEN data.is_active[1] ELSE @]
                      ELSE t : t \in templates}
               /\ last' = Response("update_template", "ok", users[u].company_id, template_id)
    /\ UNCHANGED <<tenantVars, stages, candidateVars, botToken, req>>

\* settings.py:554-571
delete_email_template(u, template_id) ==
    /\ NoRequest
    /\ get_current_active_admin(u)
    /\ LET found == TemplateById(template_id, users[u].company_id)
       IN IF found = {}
          THEN /\ last' = Response("delete_template", "404", users[u].company_id, template_id)
               /\ UNCHANGED templates
          ELSE /\ templates' = templates \ found
               /\ last' = Response("delete_template", "ok", users[u].company_id, template_id)
    /\ UNCHANGED <<tenantVars, stages, candidateVars, botToken, req>>

\* --------------------------------------------------------------- initial state
\* Users as auth/router.py register leaves them: the first user of each
\* company is its admin.
InitCompanies == {CompanyRow(1, "acme"), CompanyRow(2, "globex")}

InitUsers == <<UserRow(1, "admin"), UserRow(2, "admin")>>

InitVacancies == <<VacancyRow(1), VacancyRow(2)>>

\* ------------------------------------------- candidate pipeline specification
\* Company 1 has listed its stages and hidden "offer"; company 2 has never
\* listed its stages, so its registry is still empty.
InitCand ==
    /\ companies = InitCompanies
    /\ users = InitUsers
    /\ vacancies = InitVacancies
    /\ stages = {IF st.key = "offer" THEN [st EXCEPT !.is_active = FALSE] ELSE st :
                     st \in create_default_pipeline_stages({}, 1)}
    /\ templates = {}
    /\ candidates = <<>>
    /\ activities = <<>>
    /\ comments = <<>>
    /\ botToken \in BOOLEAN
    /\ req = [s \in CandSlots |-> Idle]
    /\ last = NoResponse

Apply == \E v \in Vacancies, n \in Usernames : apply_candidate(v, n, "ok")

ChangeStatus == \E s \in CandSlots, u \in DOMAIN users,
                   c \in 1..(MaxCandidates + 1), k \in TargetKeys :
                    update_candidate_status(s, u, c, k)

Notify == \E s \in CandSlots, d \in BOOLEAN : update_candidate_status_notify(s, d)

CommitStatus == \E s \in CandSlots : update_candidate_status_commit(s)

Comment == \E u \in DOMAIN users, c \in 1..(MaxCandidates + 1), a \in Authors :
              add_comment(u, c, a, LongText)

NextCand == Apply \/ ChangeStatus \/ Notify \/ CommitStatus \/ Comment

SpecCand == InitCand /\ [][NextCand]_vars

\* ------------------------------------------ first-access specification
\* Nothing has been listed yet; any number of list requests (up to the slots)
\* run concurrently, each a read followed by the insert of the defaults.
FirstSlots == {1, 2}

InitFirst ==
    /\ companies = InitCompanies
    /\ users = InitUsers
    /\ vacancies = InitVacancies
    /\ stages = {}
    /\ templates = {}
    /\ candidates = <<>>
    /\ activities = <<>>
    /\ comments = <<>>
    /\ botToken = TRUE
    /\ req = [s \in FirstSlots |-> Idle]
    /\ last = NoResponse

ListStages == \E s \in DOMAIN req, u \in DOMAIN users : get_pipeline_stages(s, u)

ProvisionStages == \E s \in DOMAIN req : get_pipeline_stages_provision(s)

ListTemplates == \E s \in DOMAIN req, u \in DOMAIN users : get_email_templates(s, u)

ProvisionTemplates == \E s \in DOMAIN req : get_email_templates_provision(s)

NextFirst == ListStages \/ ProvisionStages \/ ListTemplates \/ ProvisionTemplates

SpecFirst == InitFirst /\ [][NextFirst]_vars

\* ------------------------------- list_stages and create_stage, interleaved
ProvSlots == {1, 2}
CreateKeys == {"new", "custom"}
CreateData == [key : CreateKeys, label : {"Custom"}, color : {"#3B82F6"},
               is_final : BOOLEAN]
OneCompanyUsers == <<UserRow(1, "admin"), UserRow(1, "recruiter")>>

InitProv ==
    /\ companies = InitCompanies
    /\ users = OneCompanyUsers
    /\ vacancies = InitVacancies
    /\ stages = {}
    /\ templates = {}
    /\ candidates = <<>>
    /\ activities = <<>>
    /\ comments = <<>>
    /\ botToken = TRUE
    /\ req = [s \in ProvSlots |-> Idle]
    /\ last = NoResponse

CreateStage == \E s \in DOMAIN req, u \in DOMAIN users, d \in CreateData :
                  create_pipeline_stage(s, u, d)

InsertStage == \E s \in DOMAIN req : create_pipeline_stage_insert(s)

NextProv == ListStages \/ ProvisionStages \/ CreateStage \/ InsertStage

SpecProv == InitProv /\ [][NextProv]_vars

\* --------------------------------------- the registry, one request at a time
RegSlots == {1}
StageIds == {1, 2, 5, 7}
UpdatePatches == {[label |-> <<"Renamed">>, color |-> <<>>, is_active |-> <<FALSE>>],
                  [label |-> <<>>, color |-> <<"#000000">>, is_active |-> <<>>]}
ReorderLists == {<<5, 1>>}

\* Company 1 is run by its admin; company 2 has its admin and a recruiter.
RegUsers == <<UserRow(1, "admin"), UserRow(2, "admin"), UserRow(2, "recruiter")>>

\* The users who send requests: the admin of company 1, the recruiter of company 2.
RegCallers == {1, 3}

\* A candidate of company 1 has applied and was moved to screening.
InitReg ==
    /\ companies = InitCompanies
    /\ users = RegUsers
    /\ vacancies = InitVacancies
    /\ stages = {}
    /\ templates = {}
    /\ candidates = <<[company_id |-> 1, vacancy_id |-> 1, telegram_id |-> "",
                       ai_score |-> 80, ai_summary |-> "fit", status |-> "screening",
                       source |-> "telegram"]>>
    /\ activities = <<<<ApplyActivity, StatusActivity("new", "screening")>>>>
    /\ comments = <<<<>>>>
    /\ botToken = TRUE
    /\ req = [s \in RegSlots |-> Idle]
    /\ last = NoResponse

UpdateStage == \E s \in DOMAIN req, u \in RegCallers, i \in StageIds, d \in UpdatePatches :
                  update_pipeline_stage(s, u, i, d)

CommitUpdate == \E s \in DOMAIN req : update_pipeline_stage_commit(s)

Reorder == \E u \in RegCallers, l \in ReorderLists : reorder_pipeline_stages(u, l)

\* The admins of both companies delete stages.
RegAdmins == {1, 2}

DeleteStage == \E s \in DOMAIN req, u \in RegAdmins, i \in StageIds :
                  delete_pipeline_stage(s, u, i)

CommitDelete == \E s \in DOMAIN req : delete_pipeline_stage_commit(s)

RegList == \E s \in DOMAIN req, u \in RegCallers : get_pipeline_stages(s, u)

RegCreate == \E s \in DOMAIN req, u \in RegCallers, d \in CreateData :
                create_pipeline_stage(s, u, d)

NextReg == RegList \/ ProvisionStages \/ RegCreate \/ InsertStage
              \/ UpdateStage \/ CommitUpdate \/ Reorder \/ DeleteStage \/ CommitDelete

SpecReg == InitReg /\ [][NextReg]_vars

\* ------------------------------ delete_stage and create_stage, interleaved
\* Company 1 has listed its stages; its admin creates and deletes stages with
\* up to three requests in flight.
DelSlots == {1, 2, 3}
DelIds == {5, 6, 7}

InitDel ==
    /\ companies = InitCompanies
    /\ users = OneCompanyUsers
    /\ vacancies = InitVacancies
    /\ stages = create_default_pipeline_stages({}, 1)
    /\ templates = {}
    /\ candidates = <<>>
    /\ activities = <<>>
    /\ comments = <<>>
    /\ botToken = TRUE
    /\ req = [s \in DelSlots |-> Idle]
    /\ last = NoResponse

DelDelete == \E s \in DOMAIN req, u \in DOMAIN users, i \in DelIds :
                delete_pipeline_stage(s, u, i)

NextDel == CreateStage \/ InsertStage \/ DelDelete \/ CommitDelete

SpecDel == InitDel /\ [][NextDel]_vars

\* --------------------- update_stage, delete_stage and create_stage, interleaved
\* Company 1 has listed its stages; its admin creates, hides and deletes
\* stages with up to two requests in flight.
HideSlots == {1, 2}
HideIds == {5, 7}
HidePatches == {[label |-> <<"Renamed">>, color |-> <<>>, is_active |-> <<FALSE>>]}

InitHide ==
    /\ companies = InitCompanies
    /\ users = OneCompanyUsers
    /\ vacancies = InitVacancies
    /\ stages = create_default_pipeline_stages({}, 1)
    /\ templates = {}
    /\ candidates = <<>>
    /\ activities = <<>>
    /\ comments = <<>>
    /\ botToken = TRUE
    /\ req = [s \in HideSlots |-> Idle]
    /\ last = NoResponse

HideStage == \E s \in DOMAIN req, u \in DOMAIN users, i \in HideIds, d \in HidePatches :
                update_pipeline_stage(s, u, i, d)

NextHide == CreateStage \/ InsertStage \/ DelDelete \/ CommitDelete
               \/ HideStage \/ CommitUpdate

SpecHide == InitHide /\ [][NextHide]_vars

\* ------------------------------- delete_stage and change_status, interleaved
\* Company 1 has listed its stages and has one candidate, who has just applied.
UseIds == {3, 4}

InitUse ==
    /\ companies = InitCompanies
    /\ users = InitUsers
    /\ vacancies = InitVacancies
    /\ stages = create_default_pipeline_stages({}, 1)
    /\ templates = {}
    /\ candidates = <<[company_id |-> 1, vacancy_id |-> 1, telegram_id |-> "tg_user",
                       ai_score |-> 80, ai_summary |-> "fit", status |-> "new",
                       source |-> "telegram"]>>
    /\ activities = <<<<ApplyActivity>>>>
    /\ comments = <<<<>>>>
    /\ botToken = TRUE
    /\ req = [s \in CandSlots |-> Idle]
    /\ last = NoResponse

UseDelete == \E s \in DOMAIN req, u \in DOMAIN users, i \in UseIds :
                delete_pipeline_stage(s, u, i)

NextUse == ChangeStatus \/ Notify \/ CommitStatus \/ UseDelete \/ CommitDelete

SpecUse == InitUse /\ [][NextUse]_vars

\* ------------------------------------- create_stage after the defaults
\* Company 1 has listed its stages; its admin creates stages, one request at
\* a time.
OrdKeys == {"new", "custom", "extra", "onsite"}
OrdData == [key : OrdKeys, label : {"Custom"}, color : {"#3B82F6"}, is_final : BOOLEAN]

InitOrd ==
    /\ companies = InitCompanies
    /\ users = OneCompanyUsers
    /\ vacancies = InitVacancies
    /\ stages = create_default_pipeline_stages({}, 1)
    /\ templates = {}
    /\ candidates = <<>>
    /\ activities = <<>>
    /\ comments = <<>>
    /\ botToken = TRUE
    /\ req = [s \in RegSlots |-> Idle]
    /\ last = NoResponse

OrdCreate == \E s \in DOMAIN req, u \in DOMAIN users, d \in OrdData :
                create_pipeline_stage(s, u, d)

NextOrd == OrdCreate \/ InsertStage

SpecOrd == InitOrd /\ [][NextOrd]_vars

\* ------------------------------------------------------------------ reorder
\* Both companies have listed their stages, company 1 first (ids 1..6), then
\* company 2 (ids 7..12); their admins reorder and list, one request at a time.
\* The lists hold ids of either company, an unknown id and a repeated id.
UnknownId == 99
SortLists == {<<5, 1>>, <<1, 7, 5>>, <<2, UnknownId, 2>>, <<8, 2>>}

InitSort ==
    /\ companies = InitCompanies
    /\ users = InitUsers
    /\ vacancies = InitVacancies
    /\ stages = LET first == create_default_pipeline_stages({}, 1)
                IN first \cup create_default_pipeline_stages(first, 2)
    /\ templates = {}
    /\ candidates = <<>>
    /\ activities = <<>>
    /\ comments = <<>>
    /\ botToken = TRUE
    /\ req = [s \in RegSlots |-> Idle]
    /\ last = NoResponse

SortReorder == \E u \in DOMAIN users, l \in SortLists : reorder_pipeline_stages(u, l)

NextSort == SortReorder \/ ListStages

SpecSort == InitSort /\ [][NextSort]_vars

\* ------------------------------------------- apply with a failing AI provider
\* Candidates apply while the AI provider answers, raises, or returns output
\* that is not the requested JSON object; recruiters comment.
ApplyAny == \E v \in Vacancies, n \in Usernames, o \in AiOutcomes : apply_candidate(v, n, o)

NextApply == ApplyAny \/ Comment

SpecApply == InitCand /\ [][NextApply]_vars

\* ----------------------------------------------- properties of change_status
\* The step in which the status request of slot s commits.
CommitStep(s) == req[s].op = "status" /\ req[s].pc = "commit" /\ req'[s].pc = "idle"

LastActivity(c) == activities[c][Len(activities[c])]

\* The handler that finished last was a status change that the store accepted
\* and that asked for a status other than the one it read.
StatusChanged == last.op = "status" /\ last.resp = "ok" /\ last.old # last.key

\* The status and the ledger of the target are as that status change leaves them.
StatusPersisted ==
    /\ candidates[last.target].status = last.key
    /\ Len(activities[last.target]) = last.rows + 1
    /\ LastActivity(last.target).action = "status_change"
    /\ Mentions(LastActivity(last.target), last.old)
    /\ Mentions(LastActivity(last.target), last.key)

\* The request was refused only because the candidate is missing or foreign.
RefusedForAccess ==
    /\ last.resp \in {"403", "404"}
    /\ last.resp = "404" <=> ~CandidateFound(last.target)
    /\ last.resp = "403" =>
          CandidateFound(last.target) /\ candidates[last.target].company_id # last.company

\* C3: change_status(c, s) with s different from the status the handler read
\* sets c.status to s and appends exactly one activity record, with
\* action=status_change and a description containing the old and the new
\* status; the rest of the ledger is untouched.
C3_ChangeStatusWritesAndLogs ==
    [][\A s \in CandSlots :
         (CommitStep(s) /\ req[s].old # req[s].key) =>
            LET r == req[s]
                n == Len(activities[r.target])
                a == activities'[r.target][n + 1]
            IN /\ candidates'[r.target].status = r.key
               /\ Len(activities'[r.target]) = n + 1
               /\ SubSeq(activities'[r.target], 1, n) = activities[r.target]
               /\ a.action = "status_change"
               /\ Mentions(a, r.old) /\ Mentions(a, r.key)
               /\ \A c \in 1..Len(candidates) :
                     c # r.target => activities'[c] = activities[c]]_vars

C3_Witness == StatusChanged /\ StatusPersisted

\* C4: change_status(c, s) with s equal to the status read succeeds and is a
\* strict no-op: candidates, activity log and comments are unchanged and the
\* Notifier is never called for such a request.
C4_SameStatusIsNoOp ==
    [][/\ \A s \in CandSlots :
             (CommitStep(s) /\ req[s].old = req[s].key) =>
                /\ UNCHANGED candidateVars
                /\ last'.op = "status" /\ last'.resp = "ok" /\ last'.calls = 0
       /\ \A s \in CandSlots :
             req'[s].pc = "notify" => req'[s].old # req'[s].key]_vars

C4_Witness == last.op = "status" /\ last.resp = "ok" /\ last.old = last.key
              /\ last.calls = 0 /\ candidates[last.target].telegram_id # ""
              /\ last.key = "interview" /\ botToken

\* C5: in every step the ledger of each candidate grows by exactly one record
\* when the step is a mutating operation on that candidate (its apply, a
\* status-changing change_status, an add_comment) and by none otherwise, and
\* the records already in it stay as they are (append-only).
AppliedStep(c) == Len(candidates') = Len(candidates) + 1 /\ c = Len(candidates')

CommentStep(c) == c <= Len(comments) /\ Len(comments'[c]) = Len(comments[c]) + 1

StatusChangeStep(c) == \E s \in CandSlots :
                          CommitStep(s) /\ req[s].target = c /\ req[s].old # req[s].key

RowsBefore(c) == IF c <= Len(activities) THEN Len(activities[c]) ELSE 0

C5_OneActivityPerMutation ==
    [][/\ Len(candidates') >= Len(candidates)
       /\ Len(activities') = Len(candidates')
       /\ \A c \in 1..Len(candidates') :
            /\ Len(activities'[c]) - RowsBefore(c) =
                  IF AppliedStep(c) \/ CommentStep(c) \/ StatusChangeStep(c) THEN 1 ELSE 0
            /\ c <= Len(activities) =>
                  SubSeq(activities'[c], 1, RowsBefore(c)) = activities[c]]_vars

C5_Witness == \E c \in 1..Len(candidates) :
                 /\ Len(activities[c]) = 3
                 /\ activities[c][1].action = "apply"
                 /\ \E i, j \in 2..3 : /\ activities[c][i].action = "status_change"
                                       /\ activities[c][j].action = "comment"

\* C6 as stated: every accepted status change targets a key that is an active
\* stage of the caller's company (a change to an unknown or inactive key is
\* rejected).
C6_UnknownKeyRejected == StatusChanged => ActiveStageKey(last.company, last.key)

\* C6 as amended: change_status does not consult the registry.  A request is
\* refused only when the candidate is missing (404) or belongs to another
\* company (403); a change to a key that is absent from, or inactive in, the
\* caller's registry is accepted and writes the status and one activity.
C6_KeyNotValidated ==
    last.op = "status" =>
       /\ last.resp # "ok" => RefusedForAccess
       /\ (StatusChanged /\ ~ActiveStageKey(last.company, last.key)) => StatusPersisted

C6_Witness == /\ StatusChanged /\ StatusPersisted
              /\ last.key = "offer" /\ last.company = 1
              /\ \E st \in StagesOf(1) : st.key = "offer" /\ ~st.is_active

\* C7: no transition graph is enforced.  A status change is refused only for
\* access, and an accepted one to another key sets the status to that key
\* whatever the status was, the key of a final stage included.
C7_NoTransitionGraph ==
    last.op = "status" =>
       /\ last.resp # "ok" => RefusedForAccess
       /\ StatusChanged => candidates[last.target].status = last.key

C7_Witness == /\ StatusChanged
              /\ FinalStageKey(last.company, last.old)
              /\ ~FinalStageKey(last.company, last.key)
              /\ candidates[last.target].status = last.key

\* The last handler changed the status to the notify stage of a candidate
\* that has a chat handle.
InterviewChange == StatusChanged /\ last.key = "interview"
                   /\ candidates[last.target].telegram_id # ""

\* C8 as stated: a status change to interview of a candidate with a chat
\* handle calls the Notifier exactly once and leaves status interview and one
\* new activity mentioning the old and the new status.
C8_NotifiesOnInterview == InterviewChange => (last.calls = 1 /\ StatusPersisted)

\* C8 as amended: the same, provided TELEGRAM_BOT_TOKEN is set; when it is
\* not set the Notifier is not called, and status and activity are written all
\* the same.  No other status change calls the Notifier.
C8_NotifiesOnInterviewWithToken ==
    /\ InterviewChange => (last.calls = (IF botToken THEN 1 ELSE 0) /\ StatusPersisted)
    /\ (last.op = "status" /\ last.calls > 0) => InterviewChange

C8_Witness == InterviewChange /\ botToken /\ last.calls = 1 /\ StatusPersisted
              /\ last.old = "new"

\* C9: when the Notifier call fails, the request still succeeds and the new
\* status and its status_change activity are persisted.
C9_NotifierFailureAbsorbed ==
    (last.op = "status" /\ last.failed) => (last.resp = "ok" /\ StatusChanged /\ StatusPersisted)

C9_Witness == last.op = "status" /\ last.failed /\ last.resp = "ok" /\ StatusPersisted

\* ------------------------------------------------ properties of the registry
\* C1: concurrent first calls to list_stages leave the company with exactly
\* the 6 default stages, and concurrent first calls to list_templates leave it
\* with exactly the 3 default templates: a company's registry is either still
\* empty or holds one default set, never two.
C1_ProvisionedOnce ==
    \A c \in Companies :
       /\ Cardinality(StagesOf(c)) \in {0, Len(default_stages)}
       /\ Cardinality(TemplatesOf(c)) \in {0, Len(default_templates)}

\* C2: under any interleaving of list_stages and create_stage, no two stages
\* of one company have the same key.
C2_KeyUniquePerCompany ==
    \A a \in stages : \A b \in stages :
       (a.company_id = b.company_id /\ a.key = b.key) => a = b

\* A delete_stage request answered in this step.
DeleteAnswered == last' # last /\ last'.op = "delete_stage"

\* C10: a delete_stage request that targets a final stage fails with
\* InvalidOperation and leaves the registry unchanged, and every stage that is
\* final is still in the registry, final, after every step.
C10_FinalStageNeverDeleted ==
    [][/\ \A st \in stages : st.is_final =>
             \E t \in stages' : t.id = st.id /\ t.company_id = st.company_id
                                  /\ t.key = st.key /\ t.is_final
       /\ (DeleteAnswered /\ \E st \in StageById(last'.target, last'.company) : st.is_final)
             => (last'.resp = "400:final" /\ stages' = stages)]_vars

\* An update_stage request answered in this step.
UpdateAnswered == last' # last /\ last'.op = "update_stage"

\* C11: an update_stage that would hide a final stage is refused and applies
\* no part of its patch: the refusal leaves the registry as it was, no
\* update_stage answered ok has touched a final stage with a hiding patch, and
\* so after every step every final stage is active.
C11_FinalStageNeverHidden ==
    [][/\ \A st \in stages' : st.is_final => st.is_active
       /\ (UpdateAnswered /\ last'.resp = "400:hide_final") => stages' = stages]_vars

\* Some candidate of the company has this key as its status.
InUse(company_id, key) ==
    \E c \in DOMAIN candidates :
       candidates[c].company_id = company_id /\ candidates[c].status = key

\* C12: a delete_stage answered for a non-final stage of the caller's company
\* is a Conflict that keeps every stage when some candidate of that company
\* has the stage's key as status, and otherwise succeeds and removes that
\* stage and no other.
C12_DeleteRefusedIffInUse ==
    [][DeleteAnswered =>
         \A st \in StageById(last'.target, last'.company) :
            ~st.is_final =>
               IF InUse(st.company_id, st.key)
               THEN last'.resp = "400:in_use" /\ stages' = stages
               ELSE last'.resp = "ok" /\ stages' = stages \ {st}]_vars

\* The admin of company 2 has deleted its stage "screening" while a candidate
\* of company 1 is at "screening".
C12_Witness ==
    /\ last.op = "delete_stage" /\ last.resp = "ok"
    /\ last.company = 2 /\ last.key = "screening"
    /\ InUse(1, "screening")
    /\ \A st \in StagesOf(2) : st.key # "screening"
    /\ \E st \in StagesOf(2) : st.key = "new"

\* The step in which the delete_stage request of slot s commits.
DeleteCommitStep(s) ==
    req[s].op = "delete_stage" /\ req[s].pc = "delete" /\ req'[s].pc = "idle"

\* C13: under any interleaving of delete_stage with change_status requests of
\* the same company, a delete_stage never commits the removal of a stage whose
\* key is, at the moment of the commit, the status of a candidate of the
\* company.
C13_DeleteAtomicWithStatusWrites ==
    [][\A s \in DOMAIN req :
         (DeleteCommitStep(s) /\ stages' # stages) => ~InUse(req[s].company, req[s].key)]_vars

\* A create_stage request answered in this step.
CreateAnswered == last' # last /\ last'.op = "create_stage"

\* C14: a create_stage answered for a key that a stage of the caller's company
\* already has is a Conflict and leaves the registry unchanged; for any other
\* key, one that only another company uses included, it succeeds and adds
\* one stage with that key to the caller's company.
C14_CreateConflictPerCompany ==
    [][CreateAnswered =>
         IF \E st \in StagesOf(last'.company) : st.key = last'.key
         THEN last'.resp = "400:exists" /\ stages' = stages
         ELSE /\ last'.resp = "ok"
              /\ \E st \in stages' :
                    /\ st.id = last'.target /\ st.key = last'.key
                    /\ st.company_id = last'.company
                    /\ st \notin stages /\ stages' = stages \cup {st}]_vars

\* The admin of company 1 has created a stage "new" while company 2 has one.
C14_Witness ==
    /\ last.op = "create_stage" /\ last.resp = "ok"
    /\ last.company = 1 /\ last.key = "new"
    /\ \E st \in StagesOf(2) : st.key = "new"
    /\ \E st \in StagesOf(1) : st.key = "new" /\ st.id = last.target

\* The non-final stages of a company.
OpenStages(company_id) == {st \in StagesOf(company_id) : ~st.is_final}

\* C15: after any sequence of create_stage calls from the provisioned
\* defaults, a newly created stage has order = (max order among the company's
\* non-final stages) + 1, and every final stage's order is strictly greater
\* than the order of every non-final stage of its company.
C15_NewStageBeforeFinal ==
    [][/\ (CreateAnswered /\ last'.resp = "ok") =>
             \A st \in stages' \ stages :
                /\ OpenStages(st.company_id) # {}
                /\ \A o \in OpenStages(st.company_id) : o.order < st.order
                /\ \E o \in OpenStages(st.company_id) : o.order + 1 = st.order
       /\ \A f \in stages' : \A n \in stages' :
             (f.company_id = n.company_id /\ f.is_final /\ ~n.is_final)
                => f.order > n.order]_vars

\* A list_stages request answered in this step.
ListAnswered == last' # last /\ last'.op = "list_stages"

\* The stage a listing returned at position i, as the store holds it after
\* the answer.
Listed(i) == CHOOSE st \in stages' : st.id = last'.list[i]

\* C16: list_stages for a company that had no stages returns exactly 6
\* stages, with keys new, screening, interview, offer, hired, rejected in
\* that order, order values ascending, and is_final true exactly for hired
\* and rejected.
C16_FirstListReturnsDefaults ==
    [][(ListAnswered /\ StagesOf(last'.company) = {}) =>
         /\ Len(last'.list) = 6
         /\ \A i \in 1..6 : \E st \in stages' : st.id = last'.list[i]
         /\ [i \in 1..6 |-> Listed(i).key]
               = <<"new", "screening", "interview", "offer", "hired", "rejected">>
         /\ \A i \in 1..6 : Listed(i).company_id = last'.company
         /\ \A i \in 1..5 : Listed(i).order < Listed(i + 1).order
         /\ \A i \in 1..6 : Listed(i).is_final <=> Listed(i).key \in {"hired", "rejected"}
         /\ Cardinality({st \in stages' : st.company_id = last'.company}) = 6]_vars

\* Company 2 has listed its stages for the first time, after company 1.
C16_Witness ==
    /\ last.op = "list_stages" /\ last.created = 6 /\ last.company = 2
    /\ last.list = <<7, 8, 9, 10, 11, 12>>
    /\ Cardinality(StagesOf(2)) = 6 /\ Cardinality(StagesOf(1)) = 6

\* C17: when two list_stages requests of one company are answered one after
\* the other with no other request in between, the second returns the same
\* ordered sequence as the first, creates no stage and leaves the registry as
\* it was.
C17_ListTwiceSame ==
    [][(ListAnswered /\ last.op = "list_stages" /\ last.company = last'.company) =>
         /\ last'.list = last.list
         /\ last'.created = 0
         /\ stages' = stages]_vars

\* Company 1 has listed its stages, creating none, in a state reached through
\* create and reorder: a custom stage exists and two stages have the same
\* order.
C17_Witness ==
    /\ last.op = "list_stages" /\ last.company = 1 /\ last.created = 0
    /\ Len(last.list) = Cardinality(StagesOf(1))
    /\ \E a \in StagesOf(1) : \E b \in StagesOf(1) : a.id # b.id /\ a.order = b.order
    /\ \E st \in StagesOf(1) : st.key = "custom"

\* A step of reorder: it answers a reorder and stages no request.
ReorderStep == last'.op = "reorder" /\ req' = req /\ (last' # last \/ stages' # stages)

\* The 0-based positions of an id in an id list.
Positions(stage_ids, id) == {i - 1 : i \in {j \in DOMAIN stage_ids : stage_ids[j] = id}}

\* C18: reorder sets order to a position of the stage in the given list for
\* every listed stage of the caller's company and changes nothing else of it,
\* succeeds whatever ids are listed, and leaves every stage of another
\* company and every stage that is not listed as it was.
C18_ReorderFrame ==
    [][ReorderStep =>
         /\ last'.resp = "ok"
         /\ Cardinality(stages') = Cardinality(stages)
         /\ \A st \in stages :
               IF st.company_id = last'.company /\ Positions(last'.list, st.id) # {}
               THEN \E p \in Positions(last'.list, st.id) :
                       [st EXCEPT !.order = p] \in stages'
               ELSE st \in stages']_vars

\* The admin of company 1 has reordered with a list that names a stage of
\* company 2 (id 7): stages 1 and 5 moved to their positions, stage 7 kept
\* its order.
C18_Witness ==
    /\ last.op = "reorder" /\ last.company = 1 /\ last.list = <<1, 7, 5>>
    /\ \E st \in stages : st.id = 1 /\ st.order = 0
    /\ \E st \in stages : st.id = 5 /\ st.order = 2
    /\ \E st \in stages : st.id = 7 /\ st.company_id = 2 /\ st.order = 0
    /\ \E st \in stages : st.id = 2 /\ st.order = 1

\* C19: reorder is idempotent: a reorder that follows a reorder of the same
\* company with the same list, with no other request in between, changes no
\* stage.
C19_ReorderIdempotent ==
    [][(ReorderStep /\ last.op = "reorder" /\ last.company = last'.company
          /\ last.list = last'.list) => stages' = stages]_vars

\* The admin of company 1 has reordered with a list that repeats id 2 and
\* names an unknown id; stage 2 is at the later position.
C19_Witness ==
    /\ last.op = "reorder" /\ last.company = 1 /\ last.list = <<2, UnknownId, 2>>
    /\ \E st \in stages : st.id = 2 /\ st.order = 2
    /\ stages = ReorderFrom(stages, 1, last.list, 0)

\* An apply for an existing vacancy answered in this step, during which the
\* AI provider raised or returned something other than the requested object.
FailedAnalysisApply ==
    /\ last' # last /\ last'.op = "apply" /\ last'.resp # "404"
    /\ last'.ai \in {"raise", "bad_json", "no_keys", "non_object"}

\* C20: when the AI provider raises or returns malformed output during apply,
\* the request succeeds, the candidate is stored with status new, a low
\* fallback score and a summary that tells of the failed analysis, and its
\* apply activity is appended.
C20_ApplySurvivesAiFailure ==
    [][FailedAnalysisApply =>
         /\ last'.resp = "ok"
         /\ Len(candidates') = Len(candidates) + 1
         /\ LET c == candidates'[Len(candidates')]
            IN /\ c.status = "new"
               /\ c.ai_score \in {0, 10}
               /\ c.ai_summary \in {"AI analysis error", "Analysis error"}
         /\ Len(activities') = Len(activities) + 1
         /\ activities'[Len(activities')] = <<ApplyActivity>>]_vars

\* ------------------------------------------ apply after registry operations
\* Both companies have listed their stages; their admins reorder and delete
\* stages, one request at a time, and candidates apply.
EntryLists == {<<2, 1>>, <<1, 2>>, <<8, 7>>}
EntryIds == {1, 2}

EntryReorder == \E u \in DOMAIN users, l \in EntryLists : reorder_pipeline_stages(u, l)

EntryDelete == \E s \in DOMAIN req, u \in DOMAIN users, i \in EntryIds :
                  delete_pipeline_stage(s, u, i)

NextEntry == EntryReorder \/ EntryDelete \/ CommitDelete \/ Apply

SpecEntry == InitSort /\ [][NextEntry]_vars

\* The candidate the apply of this step creates.
Applied == candidates'[Len(candidates')]

\* C21: after any sequence of registry operations, apply creates the
\* candidate with status equal to the key of the lowest-order non-final stage
\* of the registry of the vacancy's company.
C21_ApplyUsesInitialStage ==
    [][Len(candidates') = Len(candidates) + 1 =>
         \E st \in StagesOf(Applied.company_id) :
            /\ ~st.is_final
            /\ st.key = Applied.status
            /\ \A o \in StagesOf(Applied.company_id) :
                  ~o.is_final => st.order <= o.order]_vars

\* ------------------------------------------------------------- add_comment
\* Candidates apply; users of both companies comment on them with texts
\* shorter than, as long as and longer than the prefix the ledger keeps.
CommentAny == \E u \in DOMAIN users, c \in 1..(MaxCandidates + 1),
                 a \in CommentAuthors, t \in CommentTexts : add_comment(u, c, a, t)

NextComment == (\E v \in Vacancies : apply_candidate(v, "tg_user", "ok")) \/ CommentAny

SpecComment == InitCand /\ [][NextComment]_vars

\* The first 20 characters of a text.
Prefix20(t) == [i \in 1..(IF Len(t) > 20 THEN 20 ELSE Len(t)) |-> t[i]]

\* C22: an add_comment that passes the access check appends exactly one
\* CandidateComment with the given author_name and the full text, and exactly
\* one activity with action comment whose description is the first 20
\* characters of the text followed by an ellipsis; the candidate's status and
\* every other candidate's records are unchanged.
C22_CommentAppendsCommentAndActivity ==
    [][\A u \in DOMAIN users, c \in 1..Len(candidates),
          a \in CommentAuthors, t \in CommentTexts :
            (add_comment(u, c, a, t) /\ candidates[c].company_id = users[u].company_id) =>
               /\ comments'[c] = Append(comments[c], [author_name |-> a, text |-> t])
               /\ Len(activities'[c]) = Len(activities[c]) + 1
               /\ SubSeq(activities'[c], 1, Len(activities[c])) = activities[c]
               /\ LET row == activities'[c][Len(activities'[c])]
                  IN /\ row.action = "comment"
                     /\ row.description.text = "Comment: {}..."
                     /\ row.description.args = Prefix20(t)
               /\ candidates' = candidates
               /\ \A d \in 1..Len(candidates) : d # c =>
                     comments'[d] = comments[d] /\ activities'[d] = activities[d]]_vars

\* A candidate who has a comment of 21 characters by "Lead", kept whole, whose
\* activity holds its first 20 characters.
C22_Witness ==
    \E c \in 1..Len(candidates) :
        /\ candidates[c].status = "new"
        /\ Len(comments[c]) = 1
        /\ comments[c][1] = [author_name |-> "Lead", text |-> Text(21)]
        /\ Len(activities[c]) = 2
        /\ activities[c][2].action = "comment"
        /\ activities[c][2].description.args = Text(20)

\* ------------------------------------------------ absent and foreign targets
\* C23: a request for a candidate that exists but belongs to another company
\* is answered as a request for an absent one is: NotFound (404).
C23_ForeignLooksAbsent ==
    (/\ last.op \in {"status", "comment"}
     /\ CandidateFound(last.target)
     /\ candidates[last.target].company_id # last.company)
    => last.resp = "404"

\* ----------------------------------------------------------- registration
\* A fresh installation: no company, no user; people register concurrently
\* under two company names.
JoinSlots == {1, 2}
JoinData == [email : {"ann@corp", "bob@corp", "cy@corp"}, company_name : {"acme", "globex"}]

InitJoin ==
    /\ companies = {}
    /\ users = <<>>
    /\ vacancies = <<>>
    /\ stages = {}
    /\ templates = {}
    /\ candidates = <<>>
    /\ activities = <<>>
    /\ comments = <<>>
    /\ botToken = TRUE
    /\ req = [s \in JoinSlots |-> Idle]
    /\ last = NoResponse

Register == \E s \in DOMAIN req, d \in JoinData : register(s, d)

RegisterCompany == \E s \in DOMAIN req : register_company(s)

RegisterCount == \E s \in DOMAIN req : register_count(s)

RegisterInsert == \E s \in DOMAIN req : register_insert(s)

NextJoin == Register \/ RegisterCompany \/ RegisterCount \/ RegisterInsert

SpecJoin == InitJoin /\ [][NextJoin]_vars

\* C24: under any interleaving of register requests, the first user created
\* for a company (the one with the lowest id) is its admin and every user
\* registered later is a recruiter, so exactly one registration per company
\* obtains admin.
C24_OnlyFirstUserIsAdmin ==
    \A c \in companies :
        \A u \in UsersOf(c.id) :
            users[u].role = IF \A v \in UsersOf(c.id) : u <= v THEN "admin" ELSE "recruiter"

\* ------------------------------------------------------- user administration
\* Company 1 has two admins and a recruiter, company 2 one admin; admins
\* change roles and deactivate users, two requests at a time.
AdminUsers == <<Account("ann@corp", 1, "admin"), Account("bob@corp", 1, "admin"),
                Account("cy@corp", 1, "recruiter"), UserRow(2, "admin")>>
Roles == {"admin", "recruiter"}

InitAdmin ==
    /\ companies = InitCompanies
    /\ users = AdminUsers
    /\ vacancies = InitVacancies
    /\ stages = {}
    /\ templates = {}
    /\ candidates = <<>>
    /\ activities = <<>>
    /\ comments = <<>>
    /\ botToken = TRUE
    /\ req = [s \in CandSlots |-> Idle]
    /\ last = NoResponse

ChangeRole == \E s \in DOMAIN req, u \in DOMAIN users, t \in 1..(Len(users) + 1),
                 r \in Roles : update_user_role(s, u, t, r)

Deactivate == \E s \in DOMAIN req, u \in DOMAIN users, t \in 1..(Len(users) + 1) :
                 deactivate_user(s, u, t)

NextAdmin ==
    \/ ChangeRole
    \/ \E s \in DOMAIN req : update_user_role_commit(s)
    \/ Deactivate
    \/ \E s \in DOMAIN req : deactivate_user_commit(s)

SpecAdmin == InitAdmin /\ [][NextAdmin]_vars

\* C25: an admin's request to change their own role, and an admin's request to
\* deactivate themselves, is answered InvalidOperation (400) and neither
\* writes nor stages anything: role and is_active stay as they are.
C25_SelfChangeRefused ==
    [][\A s \in DOMAIN req, u \in DOMAIN users :
         /\ (\E r \in Roles : update_user_role(s, u, u, r)) =>
               /\ last'.op = "role" /\ last'.resp = "400:self" /\ last'.target = u
               /\ users' = users /\ req' = req
         /\ deactivate_user(s, u, u) =>
               /\ last'.op = "deactivate" /\ last'.resp = "400:self" /\ last'.target = u
               /\ users' = users /\ req' = req]_vars

\* An admin who has just been refused a change of their own role, with
\* another admin's request in flight.
C25_Witness ==
    /\ last.op = "role" /\ last.resp = "400:self"
    /\ users[last.target].role = "admin" /\ users[last.target].is_active
    /\ \E s \in DOMAIN req : req[s].op = "deactivate"

\* C30: under any interleaving of role changes and deactivations issued by
\* active admins, every company that has a user keeps at least one user who
\* is active and has role admin.
C30_CompanyKeepsActiveAdmin ==
    \A c \in companies :
        UsersOf(c.id) # {} =>
            \E u \in UsersOf(c.id) : users[u].is_active /\ users[u].role = "admin"

\* ------------------------------------------------- Notifier and the commit
\* C26: the Notifier is called only after the status write and its activity
\* have been committed: no change_status request that is still to commit has
\* called the Notifier while the store still holds the old status.
C26_NotifierOnlyAfterCommit ==
    \A s \in DOMAIN req :
        (req[s].op = "status" /\ req[s].calls > 0) =>
            candidates[req[s].target].status = req[s].key

\* -------------------------------------------- reorder and list, interleaved
\* Both companies have listed their stages; their admins reorder, the handler
\* taken step by step, while stages are listed.
BatchLists == {<<5, 1>>, <<1, 5>>, <<2, 7, 2>>}

NextBatch ==
    \/ \E s \in DOMAIN req, u \in DOMAIN users, l \in BatchLists :
          reorder_pipeline_stages_start(s, u, l)
    \/ \E s \in DOMAIN req : reorder_pipeline_stages_lookup(s)
    \/ \E s \in DOMAIN req : reorder_pipeline_stages_commit(s)
    \/ ListStages

InitBatch ==
    /\ companies = InitCompanies
    /\ users = InitUsers
    /\ vacancies = InitVacancies
    /\ stages = LET first == create_default_pipeline_stages({}, 1)
                IN first \cup create_default_pipeline_stages(first, 2)
    /\ templates = {}
    /\ candidates = <<>>
    /\ activities = <<>>
    /\ comments = <<>>
    /\ botToken = TRUE
    /\ req = [s \in CandSlots |-> Idle]
    /\ last = NoResponse

SpecBatch == InitBatch /\ [][NextBatch]_vars

C28_DefaultsBeforeFirstUse ==
    \A c \in Companies :
        StagesOf(c) # {} =>
            \A k \in {"new", "screening", "interview", "offer", "hired", "rejected"} :
                \E st \in StagesOf(c) : st.key = k

\* ---------------------------------------------------------- tenant isolation
\* Company 1 has an admin (user 1), its default stages (ids 1..6) and
\* templates (ids 1..3), a vacancy and a candidate; company 2 has an admin, a
\* recruiter (user 3), a stage created before any listing (id 7), a template
\* its admin created (id 4), a vacancy and a candidate.  The admin of company
\* 1 sends every authenticated operation, one request at a time, with ids of
\* company 2 and with the ids of what company 1 creates meanwhile (stage 8,
\* template 5, user 4).
FrameUsers == <<UserRow(1, "admin"), UserRow(2, "admin"), UserRow(2, "recruiter")>>
FrameCallers == {1}
FrameStageIds == {7, 8}
FrameTemplateIds == {4, 5}
FrameUserIds == {3, 4}
FrameOtherIds == {1, 2}

InitFrame ==
    /\ companies = InitCompanies
    /\ users = FrameUsers
    /\ vacancies = InitVacancies
    /\ stages = create_default_pipeline_stages({}, 1) \cup
                   {StageRow(7, 2, [key |-> "custom", label |-> "Custom", color |-> "#3B82F6",
                                    order |-> 0, is_final |-> FALSE])}
    /\ templates = create_default_email_templates({}, 1) \cup
                      {TemplateRow(4, 2, [type |-> "offer", name |-> "Custom"])}
    /\ candidates = <<[company_id |-> 1, vacancy_id |-> 1, telegram_id |-> "",
                       ai_score |-> 80, ai_summary |-> "fit", status |-> "new",
                       source |-> "telegram"],
                      [company_id |-> 2, vacancy_id |-> 2, telegram_id |-> "",
                       ai_score |-> 80, ai_summary |-> "fit", status |-> "new",
                       source |-> "telegram"]>>
    /\ activities = <<<<ApplyActivity>>, <<ApplyActivity>>>>
    /\ comments = <<<<>>, <<>>>>
    /\ botToken = TRUE
    /\ req = [s \in RegSlots |-> Idle]
    /\ last = NoResponse

NextFrame ==
    \/ \E s \in DOMAIN req, u \in FrameCallers :
          create_pipeline_stage(s, u, [key |-> "custom", label |-> "Custom",
                                       color |-> "#3B82F6", is_final |-> FALSE])
    \/ InsertStage
    \/ \E s \in DOMAIN req, u \in FrameCallers, i \in FrameStageIds, d \in HidePatches :
          update_pipeline_stage(s, u, i, d)
    \/ CommitUpdate
    \/ \E u \in FrameCallers : reorder_pipeline_stages(u, <<7, 2, 1>>)
    \/ \E s \in DOMAIN req, u \in FrameCallers, i \in FrameStageIds :
          delete_pipeline_stage(s, u, i)
    \/ CommitDelete
    \/ \E u \in FrameCallers :
          create_email_template(u, [type |-> "offer", name |-> "Custom"])
    \/ \E u \in FrameCallers, i \in FrameTemplateIds :
          update_email_template(u, i, [name |-> <<>>, is_active |-> <<FALSE>>])
    \/ \E u \in FrameCallers, i \in FrameTemplateIds : delete_email_template(u, i)
    \/ \E u \in FrameCallers :
          create_user(u, [email |-> "new@corp", role |-> "recruiter"])
    \/ \E s \in DOMAIN req, u \in FrameCallers, i \in FrameUserIds :
          update_user_role(s, u, i, "admin")
    \/ \E s \in DOMAIN req : update_user_role_commit(s)
    \/ \E s \in DOMAIN req, u \in FrameCallers, i \in FrameUserIds :
          deactivate_user(s, u, i)
    \/ \E s \in DOMAIN req : deactivate_user_commit(s)
    \/ \E s \in DOMAIN req, u \in FrameCallers, i \in FrameOtherIds :
          update_candidate_status(s, u, i, "interview")
    \/ \E s \in DOMAIN req : update_candidate_status_commit(s)
    \/ \E u \in FrameCallers, i \in FrameOtherIds : add_comment(u, i, "HR", LongText)
    \/ \E u \in FrameCallers, i \in FrameOtherIds :
          update_vacancy(u, i, [status |-> <<"closed">>])

SpecFrame == InitFrame /\ [][NextFrame]_vars

\* The company on whose behalf the step is taken: that of the request in
\* flight that the step continues, otherwise that of the request answered.
Actor ==
    IF \E s \in DOMAIN req : req[s].pc # "idle"
    THEN req[CHOOSE s \in DOMAIN req : req[s].pc # "idle"].company
    ELSE last'.company

\* The rows of company b are the same before and after the step.
Untouched(b) ==
    /\ {st \in stages' : st.company_id = b} = StagesOf(b)
    /\ {t \in templates' : t.company_id = b} = TemplatesOf(b)
    /\ {i \in DOMAIN users' : users'[i].company_id = b} = UsersOf(b)
    /\ \A i \in UsersOf(b) : users'[i] = users[i]
    /\ Len(vacancies') = Len(vacancies)
    /\ \A i \in DOMAIN vacancies : vacancies[i].company_id = b => vacancies'[i] = vacancies[i]
    /\ Len(candidates') = Len(candidates)
    /\ \A i \in DOMAIN candidates :
          candidates[i].company_id = b =>
             /\ candidates'[i] = candidates[i]
             /\ comments'[i] = comments[i]
             /\ activities'[i] = activities[i]

\* C29: every authenticated operation executed by a user of company A
\* leaves the stages, templates, users, vacancies, candidates, comments and
\* activities of every other company B unchanged, whatever target id is
\* supplied.
C29_OtherCompaniesUntouched ==
    [][\A b \in Companies : b # Actor => Untouched(b)]_vars

\* Company 1 has just been refused a change of company 2's template, after
\* having changed its own registry, accounts, vacancy and candidate; company
\* 2's rows are as they were.
C29_Witness ==
    /\ last.op = "update_template" /\ last.company = 1 /\ last.target = 4
    /\ last.resp = "404"
    /\ \E t \in TemplatesOf(2) : t.id = 4 /\ t.is_active
    /\ \E st \in StagesOf(1) : st.id = 1 /\ st.order = 2
    /\ vacancies[1].status = "closed"
    /\ Len(users) = 4 /\ users[4].role = "admin"
    /\ candidates[1].status = "interview" /\ candidates[2].status = "new"

====
